---- MODULE Spec2Model ----
(***************************************************************************)
(* The tool handlers of spotify_mcp_server.py.  Every handler has the same *)
(* shape: inside one try block it builds a client from the caller's token, *)
(* issues one call on it and returns the answer (as received, replaced by  *)
(* a placeholder when falsy, or wrapped under a key); its only except      *)
(* clause, `except Exception as e`, returns {"error": "<text>: " + str(e)}.*)
(***************************************************************************)
EXTENDS Integers, Sequences, FiniteSets, TLC

\* ------------------------------------------------------------------ bounds
\* number of invocation slots the tool host serves
NumInvocations == 2
\* client handles constructed over a run
MaxHandles == 3
\* longest identifier list passed to an existence check
MaxIds == 2
\* longest additional_types string passed to get_playlist_items
MaxStrLen == 3

\* ----------------------------------------------------------- Python values
PyNone == [t |-> "None"]
PyBool(b) == [t |-> "bool", b |-> b]
PyStr(s) == [t |-> "str", s |-> s]
PyInt(n) == [t |-> "int", n |-> n]
PyList(xs) == [t |-> "list", items |-> xs]
PyTuple(xs) == [t |-> "tuple", items |-> xs]
\* a dict is the sequence of its <<key, value>> items, in insertion order
PyDict(kvs) == [t |-> "dict", items |-> kvs]

\* the default of a parameter that has none
Required == [t |-> "required"]

\* no value: a local variable not assigned yet
Unset == [t |-> "unset"]

\* bool(v), the test of `x if x else y`
Truthy(v) ==
    CASE v.t = "None" -> FALSE
      [] v.t = "bool" -> v.b
      [] v.t = "str" -> v.s # ""
      [] v.t = "int" -> v.n # 0
      [] v.t \in {"list", "tuple", "dict"} -> Len(v.items) > 0
      [] OTHER -> TRUE

IsMapping(v) == v.t = "dict"

Keys(v) == {v.items[j][1] : j \in 1..Len(v.items)}

HasKey(v, k) == IsMapping(v) /\ k \in Keys(v)

\* d[k] of a dict holding k
Get(v, k) == v.items[CHOOSE j \in 1..Len(v.items) : v.items[j][1] = k][2]

\* ------------------------------------------------------------- exceptions
\* the classes raised inside a handler, each with its bases up to BaseException
Bases(cls) ==
    CASE cls = "SpotifyException" -> {"SpotifyException", "Exception", "BaseException"}
      [] cls = "ConnectionError" -> {"ConnectionError", "Exception", "BaseException"}
      [] cls = "AttributeError" -> {"AttributeError", "Exception", "BaseException"}
      [] cls = "KeyboardInterrupt" -> {"KeyboardInterrupt", "BaseException"}
      [] OTHER -> {cls, "BaseException"}

\* an exception object: its class and the text str(e) gives
Raised(cls, text) == [cls |-> cls, str |-> text]

NoExc == Raised("", "")

\* str(e)
Str(e) == e.str

\* ----------------------------------------------------------- the handlers
\* One record per @mcp.tool() handler: its parameters after token (name,
\* annotation, default), the client method it calls, the arguments of that
\* call in order (keyword or "" for a positional one; a parameter, a literal
\* or a local variable), its return expression ("raw": the answer itself,
\* "placeholder": `x if x else {key: None}`, "wrap": `{key: x}`) and the
\* literal text of its error message.
get_album_info ==
    [name |-> "get_album_info",
     params |-> <<<<"album_id", "str", Required>>, <<"market", "Optional[str]", PyNone>>>>,
     method |-> "album",
     args |-> <<<<"", "param", "album_id">>, <<"market", "param", "market">>>>,
     returns |-> "raw",
     key |-> "",
     failure |-> "Failed to get album info: "]

get_album_tracks ==
    [name |-> "get_album_tracks",
     params |-> <<<<"album_id", "str", Required>>, <<"limit", "int", PyInt(50)>>,
                 <<"offset", "int", PyInt(0)>>, <<"market", "Optional[str]", PyNone>>>>,
     method |-> "album_tracks",
     args |-> <<<<"", "param", "album_id">>, <<"limit", "param", "limit">>,
               <<"offset", "param", "offset">>, <<"market", "param", "market">>>>,
     returns |-> "raw",
     key |-> "",
     failure |-> "Failed to get album tracks: "]

get_albums ==
    [name |-> "get_albums",
     params |-> <<<<"albums", "List[str]", Required>>, <<"market", "Optional[str]", PyNone>>>>,
     method |-> "albums",
     args |-> <<<<"", "param", "albums">>, <<"market", "param", "market">>>>,
     returns |-> "raw",
     key |-> "",
     failure |-> "Failed to get albums: "]

get_artist_info ==
    [name |-> "get_artist_info",
     params |-> <<<<"artist_id", "str", Required>>>>,
     method |-> "artist",
     args |-> <<<<"", "param", "artist_id">>>>,
     returns |-> "raw",
     key |-> "",
     failure |-> "Failed to get artist info: "]

get_artist_albums ==
    [name |-> "get_artist_albums",
     params |-> <<<<"artist_id", "str", Required>>, <<"album_type", "Optional[str]", PyNone>>,
                 <<"include_groups", "Optional[str]", PyNone>>,
                 <<"country", "Optional[str]", PyNone>>, <<"limit", "int", PyInt(20)>>,
                 <<"offset", "int", PyInt(0)>>>>,
     method |-> "artist_albums",
     args |-> <<<<"", "param", "artist_id">>, <<"album_type", "param", "album_type">>,
               <<"include_groups", "param", "include_groups">>,
               <<"country", "param", "country">>, <<"limit", "param", "limit">>,
               <<"offset", "param", "offset">>>>,
     returns |-> "raw",
     key |-> "",
     failure |-> "Failed to get artist albums: "]

get_artist_related_artists ==
    [name |-> "get_artist_related_artists",
     params |-> <<<<"artist_id", "str", Required>>>>,
     method |-> "artist_related_artists",
     args |-> <<<<"", "param", "artist_id">>>>,
     returns |-> "raw",
     key |-> "",
     failure |-> "Failed to get related artists: "]

get_artist_top_tracks ==
    [name |-> "get_artist_top_tracks",
     params |-> <<<<"artist_id", "str", Required>>, <<"country", "str", PyStr("US")>>>>,
     method |-> "artist_top_tracks",
     args |-> <<<<"", "param", "artist_id">>, <<"country", "param", "country">>>>,
     returns |-> "raw",
     key |-> "",
     failure |-> "Failed to get artist top tracks: "]

get_artists ==
    [name |-> "get_artists",
     params |-> <<<<"artists", "List[str]", Required>>>>,
     method |-> "artists",
     args |-> <<<<"", "param", "artists">>>>,
     returns |-> "raw",
     key |-> "",
     failure |-> "Failed to get artists: "]

get_audio_analysis ==
    [name |-> "get_audio_analysis",
     params |-> <<<<"track_id", "str", Required>>>>,
     method |-> "audio_analysis",
     args |-> <<<<"", "param", "track_id">>>>,
     returns |-> "raw",
     key |-> "",
     failure |-> "Failed to get audio analysis: "]

\* get_audio_features returning the answer without the placeholder
get_audio_features_returning_raw ==
    [name |-> "get_audio_features",
     params |-> <<<<"tracks", "List[str]", Required>>>>,
     method |-> "audio_features",
     args |-> <<<<"", "param", "tracks">>>>,
     returns |-> "raw",
     key |-> "audio_features",
     failure |-> "Failed to get audio features: "]

get_audio_features ==
    [name |-> "get_audio_features",
     params |-> <<<<"tracks", "List[str]", Required>>>>,
     method |-> "audio_features",
     args |-> <<<<"", "param", "tracks">>>>,
     returns |-> "placeholder",
     key |-> "audio_features",
     failure |-> "Failed to get audio features: "]

get_available_markets ==
    [name |-> "get_available_markets",
     params |-> <<>>,
     method |-> "available_markets",
     args |-> <<>>,
     returns |-> "raw",
     key |-> "",
     failure |-> "Failed to get available markets: "]

get_categories ==
    [name |-> "get_categories",
     params |-> <<<<"country", "Optional[str]", PyNone>>, <<"locale", "Optional[str]", PyNone>>,
                 <<"limit", "int", PyInt(20)>>, <<"offset", "int", PyInt(0)>>>>,
     method |-> "categories",
     args |-> <<<<"country", "param", "country">>, <<"locale", "param", "locale">>,
               <<"limit", "param", "limit">>, <<"offset", "param", "offset">>>>,
     returns |-> "raw",
     key |-> "",
     failure |-> "Failed to get categories: "]

get_category ==
    [name |-> "get_category",
     params |-> <<<<"category_id", "str", Required>>, <<"country", "Optional[str]", PyNone>>,
                 <<"locale", "Optional[str]", PyNone>>>>,
     method |-> "category",
     args |-> <<<<"", "param", "category_id">>, <<"country", "param", "country">>,
               <<"locale", "param", "locale">>>>,
     returns |-> "raw",
     key |-> "",
     failure |-> "Failed to get category: "]

get_category_playlists ==
    [name |-> "get_category_playlists",
     params |-> <<<<"category_id", "str", Required>>, <<"country", "Optional[str]", PyNone>>,
                 <<"limit", "int", PyInt(20)>>, <<"offset", "int", PyInt(0)>>>>,
     method |-> "category_playlists",
     args |-> <<<<"", "param", "category_id">>, <<"country", "param", "country">>,
               <<"limit", "param", "limit">>, <<"offset", "param", "offset">>>>,
     returns |-> "raw",
     key |-> "",
     failure |-> "Failed to get category playlists: "]

get_episode ==
    [name |-> "get_episode",
     params |-> <<<<"episode_id", "str", Required>>, <<"market", "Optional[str]", PyNone>>>>,
     method |-> "episode",
     args |-> <<<<"", "param", "episode_id">>, <<"market", "param", "market">>>>,
     returns |-> "raw",
     key |-> "",
     failure |-> "Failed to get episode: "]

get_episodes ==
    [name |-> "get_episodes",
     params |-> <<<<"ids", "List[str]", Required>>, <<"market", "Optional[str]", PyNone>>>>,
     method |-> "episodes",
     args |-> <<<<"", "param", "ids">>, <<"market", "param", "market">>>>,
     returns |-> "raw",
     key |-> "",
     failure |-> "Failed to get episodes: "]

get_featured_playlists ==
    [name |-> "get_featured_playlists",
     params |-> <<<<"locale", "Optional[str]", PyNone>>, <<"country", "Optional[str]", PyNone>>,
                 <<"timestamp", "Optional[str]", PyNone>>, <<"limit", "int", PyInt(20)>>,
                 <<"offset", "int", PyInt(0)>>>>,
     method |-> "featured_playlists",
     args |-> <<<<"locale", "param", "locale">>, <<"country", "param", "country">>,
               <<"timestamp", "param", "timestamp">>, <<"limit", "param", "limit">>,
               <<"offset", "param", "offset">>>>,
     returns |-> "raw",
     key |-> "",
     failure |-> "Failed to get featured playlists: "]

get_audiobook ==
    [name |-> "get_audiobook",
     params |-> <<<<"id", "str", Required>>, <<"market", "Optional[str]", PyNone>>>>,
     method |-> "get_audiobook",
     args |-> <<<<"", "param", "id">>, <<"market", "param", "market">>>>,
     returns |-> "raw",
     key |-> "",
     failure |-> "Failed to get audiobook: "]

get_audiobook_chapters ==
    [name |-> "get_audiobook_chapters",
     params |-> <<<<"id", "str", Required>>, <<"market", "Optional[str]", PyNone>>,
                 <<"limit", "int", PyInt(20)>>, <<"offset", "int", PyInt(0)>>>>,
     method |-> "get_audiobook_chapters",
     args |-> <<<<"", "param", "id">>, <<"market", "param", "market">>,
               <<"limit", "param", "limit">>, <<"offset", "param", "offset">>>>,
     returns |-> "raw",
     key |-> "",
     failure |-> "Failed to get audiobook chapters: "]

get_audiobooks ==
    [name |-> "get_audiobooks",
     params |-> <<<<"ids", "List[str]", Required>>, <<"market", "Optional[str]", PyNone>>>>,
     method |-> "get_audiobooks",
     args |-> <<<<"", "param", "ids">>, <<"market", "param", "market">>>>,
     returns |-> "raw",
     key |-> "",
     failure |-> "Failed to get audiobooks: "]

get_new_releases ==
    [name |-> "get_new_releases",
     params |-> <<<<"country", "Optional[str]", PyNone>>, <<"limit", "int", PyInt(20)>>,
                 <<"offset", "int", PyInt(0)>>>>,
     method |-> "new_releases",
     args |-> <<<<"country", "param", "country">>, <<"limit", "param", "limit">>,
               <<"offset", "param", "offset">>>>,
     returns |-> "raw",
     key |-> "",
     failure |-> "Failed to get new releases: "]

get_playlist_info ==
    [name |-> "get_playlist_info",
     params |-> <<<<"playlist_id", "str", Required>>>>,
     method |-> "playlist",
     args |-> <<<<"", "param", "playlist_id">>>>,
     returns |-> "raw",
     key |-> "",
     failure |-> "Failed to get playlist info: "]

get_playlist_tracks ==
    [name |-> "get_playlist_tracks",
     params |-> <<<<"playlist_id", "str", Required>>, <<"fields", "Optional[str]", PyNone>>,
                 <<"limit", "int", PyInt(100)>>, <<"offset", "int", PyInt(0)>>,
                 <<"market", "Optional[str]", PyNone>>,
                 <<"additional_types", "Optional[str]", PyNone>>>>,
     method |-> "playlist_tracks",
     args |-> <<<<"", "param", "playlist_id">>, <<"fields", "param", "fields">>,
               <<"limit", "param", "limit">>, <<"offset", "param", "offset">>,
               <<"market", "param", "market">>,
               <<"additional_types", "param", "additional_types">>>>,
     returns |-> "raw",
     key |-> "",
     failure |-> "Failed to get playlist tracks: "]

\* playlist_cover_image written like the placeholder handlers
playlist_cover_image_with_placeholder ==
    [name |-> "playlist_cover_image",
     params |-> <<<<"playlist_id", "str", Required>>>>,
     method |-> "playlist_cover_image",
     args |-> <<<<"", "param", "playlist_id">>>>,
     returns |-> "placeholder",
     key |-> "images",
     failure |-> "Failed to get playlist cover image: "]

playlist_cover_image ==
    [name |-> "playlist_cover_image",
     params |-> <<<<"playlist_id", "str", Required>>>>,
     method |-> "playlist_cover_image",
     args |-> <<<<"", "param", "playlist_id">>>>,
     returns |-> "wrap",
     key |-> "images",
     failure |-> "Failed to get playlist cover image: "]

playlist_is_following ==
    [name |-> "playlist_is_following",
     params |-> <<<<"playlist_id", "str", Required>>, <<"user_ids", "List[str]", Required>>>>,
     method |-> "playlist_is_following",
     args |-> <<<<"", "param", "playlist_id">>, <<"", "param", "user_ids">>>>,
     returns |-> "wrap",
     key |-> "following",
     failure |-> "Failed to check playlist following status: "]

get_available_genres ==
    [name |-> "get_available_genres",
     params |-> <<>>,
     method |-> "recommendation_genre_seeds",
     args |-> <<>>,
     returns |-> "raw",
     key |-> "",
     failure |-> "Failed to get available genres: "]

get_recommendations ==
    [name |-> "get_recommendations",
     params |-> <<<<"seed_artists", "Optional[List[str]]", PyNone>>,
                 <<"seed_genres", "Optional[List[str]]", PyNone>>,
                 <<"seed_tracks", "Optional[List[str]]", PyNone>>, <<"limit", "int", PyInt(20)>>,
                 <<"market", "Optional[str]", PyNone>>,
                 <<"min_acousticness", "Optional[float]", PyNone>>,
                 <<"max_acousticness", "Optional[float]", PyNone>>,
                 <<"target_acousticness", "Optional[float]", PyNone>>,
                 <<"min_danceability", "Optional[float]", PyNone>>,
                 <<"max_danceability", "Optional[float]", PyNone>>,
                 <<"target_danceability", "Optional[float]", PyNone>>,
                 <<"min_duration_ms", "Optional[int]", PyNone>>,
                 <<"max_duration_ms", "Optional[int]", PyNone>>,
                 <<"target_duration_ms", "Optional[int]", PyNone>>,
                 <<"min_energy", "Optional[float]", PyNone>>,
                 <<"max_energy", "Optional[float]", PyNone>>,
                 <<"target_energy", "Optional[float]", PyNone>>,
                 <<"min_instrumentalness", "Optional[float]", PyNone>>,
                 <<"max_instrumentalness", "Optional[float]", PyNone>>,
                 <<"target_instrumentalness", "Optional[float]", PyNone>>,
                 <<"min_key", "Optional[int]", PyNone>>, <<"max_key", "Optional[int]", PyNone>>,
                 <<"target_key", "Optional[int]", PyNone>>,
                 <<"min_liveness", "Optional[float]", PyNone>>,
                 <<"max_liveness", "Optional[float]", PyNone>>,
                 <<"target_liveness", "Optional[float]", PyNone>>,
                 <<"min_loudness", "Optional[float]", PyNone>>,
                 <<"max_loudness", "Optional[float]", PyNone>>,
                 <<"target_loudness", "Optional[float]", PyNone>>,
                 <<"min_mode", "Optional[int]", PyNone>>,
                 <<"max_mode", "Optional[int]", PyNone>>,
                 <<"target_mode", "Optional[int]", PyNone>>,
                 <<"min_popularity", "Optional[int]", PyNone>>,
                 <<"max_popularity", "Optional[int]", PyNone>>,
                 <<"target_popularity", "Optional[int]", PyNone>>,
                 <<"min_speechiness", "Optional[float]", PyNone>>,
                 <<"max_speechiness", "Optional[float]", PyNone>>,
                 <<"target_speechiness", "Optional[float]", PyNone>>,
                 <<"min_tempo", "Optional[float]", PyNone>>,
                 <<"max_tempo", "Optional[float]", PyNone>>,
                 <<"target_tempo", "Optional[float]", PyNone>>,
                 <<"min_time_signature", "Optional[int]", PyNone>>,
                 <<"max_time_signature", "Optional[int]", PyNone>>,
                 <<"target_time_signature", "Optional[int]", PyNone>>,
                 <<"min_valence", "Optional[float]", PyNone>>,
                 <<"max_valence", "Optional[float]", PyNone>>,
                 <<"target_valence", "Optional[float]", PyNone>>>>,
     method |-> "recommendations",
     args |-> <<<<"seed_artists", "param", "seed_artists">>,
               <<"seed_genres", "param", "seed_genres">>,
               <<"seed_tracks", "param", "seed_tracks">>, <<"limit", "param", "limit">>,
               <<"market", "param", "market">>,
               <<"min_acousticness", "param", "min_acousticness">>,
               <<"max_acousticness", "param", "max_acousticness">>,
               <<"target_acousticness", "param", "target_acousticness">>,
               <<"min_danceability", "param", "min_danceability">>,
               <<"max_danceability", "param", "max_danceability">>,
               <<"target_danceability", "param", "target_danceability">>,
               <<"min_duration_ms", "param", "min_duration_ms">>,
               <<"max_duration_ms", "param", "max_duration_ms">>,
               <<"target_duration_ms", "param", "target_duration_ms">>,
               <<"min_energy", "param", "min_energy">>, <<"max_energy", "param", "max_energy">>,
               <<"target_energy", "param", "target_energy">>,
               <<"min_instrumentalness", "param", "min_instrumentalness">>,
               <<"max_instrumentalness", "param", "max_instrumentalness">>,
               <<"target_instrumentalness", "param", "target_instrumentalness">>,
               <<"min_key", "param", "min_key">>, <<"max_key", "param", "max_key">>,
               <<"target_key", "param", "target_key">>,
               <<"min_liveness", "param", "min_liveness">>,
               <<"max_liveness", "param", "max_liveness">>,
               <<"target_liveness", "param", "target_liveness">>,
               <<"min_loudness", "param", "min_loudness">>,
               <<"max_loudness", "param", "max_loudness">>,
               <<"target_loudness", "param", "target_loudness">>,
               <<"min_mode", "param", "min_mode">>, <<"max_mode", "param", "max_mode">>,
               <<"target_mode", "param", "target_mode">>,
               <<"min_popularity", "param", "min_popularity">>,
               <<"max_popularity", "param", "max_popularity">>,
               <<"target_popularity", "param", "target_popularity">>,
               <<"min_speechiness", "param", "min_speechiness">>,
               <<"max_speechiness", "param", "max_speechiness">>,
               <<"target_speechiness", "param", "target_speechiness">>,
               <<"min_tempo", "param", "min_tempo">>, <<"max_tempo", "param", "max_tempo">>,
               <<"target_tempo", "param", "target_tempo">>,
               <<"min_time_signature", "param", "min_time_signature">>,
               <<"max_time_signature", "param", "max_time_signature">>,
               <<"target_time_signature", "param", "target_time_signature">>,
               <<"min_valence", "param", "min_valence">>,
               <<"max_valence", "param", "max_valence">>,
               <<"target_valence", "param", "target_valence">>>>,
     returns |-> "raw",
     key |-> "",
     failure |-> "Failed to get recommendations: "]

search_tracks ==
    [name |-> "search_tracks",
     params |-> <<<<"query", "str", Required>>, <<"limit", "int", PyInt(10)>>,
                 <<"offset", "int", PyInt(0)>>>>,
     method |-> "search",
     args |-> <<<<"q", "param", "query">>, <<"type", "const", "track">>,
               <<"limit", "param", "limit">>, <<"offset", "param", "offset">>>>,
     returns |-> "raw",
     key |-> "",
     failure |-> "Track search failed: "]

\* search_artists copied from search_tracks with the item type left as it was
search_artists_searching_tracks ==
    [name |-> "search_artists",
     params |-> <<<<"query", "str", Required>>, <<"limit", "int", PyInt(10)>>,
                 <<"offset", "int", PyInt(0)>>>>,
     method |-> "search",
     args |-> <<<<"q", "param", "query">>, <<"type", "const", "track">>,
               <<"limit", "param", "limit">>, <<"offset", "param", "offset">>>>,
     returns |-> "raw",
     key |-> "",
     failure |-> "Artist search failed: "]

search_artists ==
    [name |-> "search_artists",
     params |-> <<<<"query", "str", Required>>, <<"limit", "int", PyInt(10)>>,
                 <<"offset", "int", PyInt(0)>>>>,
     method |-> "search",
     args |-> <<<<"q", "param", "query">>, <<"type", "const", "artist">>,
               <<"limit", "param", "limit">>, <<"offset", "param", "offset">>>>,
     returns |-> "raw",
     key |-> "",
     failure |-> "Artist search failed: "]

search_albums ==
    [name |-> "search_albums",
     params |-> <<<<"query", "str", Required>>, <<"limit", "int", PyInt(10)>>,
                 <<"offset", "int", PyInt(0)>>>>,
     method |-> "search",
     args |-> <<<<"q", "param", "query">>, <<"type", "const", "album">>,
               <<"limit", "param", "limit">>, <<"offset", "param", "offset">>>>,
     returns |-> "raw",
     key |-> "",
     failure |-> "Album search failed: "]

search_playlists ==
    [name |-> "search_playlists",
     params |-> <<<<"query", "str", Required>>, <<"limit", "int", PyInt(10)>>,
                 <<"offset", "int", PyInt(0)>>>>,
     method |-> "search",
     args |-> <<<<"q", "param", "query">>, <<"type", "const", "playlist">>,
               <<"limit", "param", "limit">>, <<"offset", "param", "offset">>>>,
     returns |-> "raw",
     key |-> "",
     failure |-> "Playlist search failed: "]

get_show ==
    [name |-> "get_show",
     params |-> <<<<"show_id", "str", Required>>, <<"market", "Optional[str]", PyNone>>>>,
     method |-> "show",
     args |-> <<<<"", "param", "show_id">>, <<"market", "param", "market">>>>,
     returns |-> "raw",
     key |-> "",
     failure |-> "Failed to get show: "]

get_show_episodes ==
    [name |-> "get_show_episodes",
     params |-> <<<<"show_id", "str", Required>>, <<"limit", "int", PyInt(50)>>,
                 <<"offset", "int", PyInt(0)>>, <<"market", "Optional[str]", PyNone>>>>,
     method |-> "show_episodes",
     args |-> <<<<"", "param", "show_id">>, <<"limit", "param", "limit">>,
               <<"offset", "param", "offset">>, <<"market", "param", "market">>>>,
     returns |-> "raw",
     key |-> "",
     failure |-> "Failed to get show episodes: "]

get_shows ==
    [name |-> "get_shows",
     params |-> <<<<"ids", "List[str]", Required>>, <<"market", "Optional[str]", PyNone>>>>,
     method |-> "shows",
     args |-> <<<<"", "param", "ids">>, <<"market", "param", "market">>>>,
     returns |-> "raw",
     key |-> "",
     failure |-> "Failed to get shows: "]

get_track_info ==
    [name |-> "get_track_info",
     params |-> <<<<"track_id", "str", Required>>>>,
     method |-> "track",
     args |-> <<<<"", "param", "track_id">>>>,
     returns |-> "raw",
     key |-> "",
     failure |-> "Failed to get track info: "]

get_tracks ==
    [name |-> "get_tracks",
     params |-> <<<<"ids", "List[str]", Required>>, <<"market", "Optional[str]", PyNone>>>>,
     method |-> "tracks",
     args |-> <<<<"", "param", "ids">>, <<"market", "param", "market">>>>,
     returns |-> "raw",
     key |-> "",
     failure |-> "Failed to get tracks: "]

get_user ==
    [name |-> "get_user",
     params |-> <<<<"user_id", "str", Required>>>>,
     method |-> "user",
     args |-> <<<<"", "param", "user_id">>>>,
     returns |-> "raw",
     key |-> "",
     failure |-> "Failed to get user: "]

get_user_playlists ==
    [name |-> "get_user_playlists",
     params |-> <<<<"user_id", "str", Required>>, <<"limit", "int", PyInt(50)>>,
                 <<"offset", "int", PyInt(0)>>>>,
     method |-> "user_playlists",
     args |-> <<<<"", "param", "user_id">>, <<"limit", "param", "limit">>,
               <<"offset", "param", "offset">>>>,
     returns |-> "raw",
     key |-> "",
     failure |-> "Failed to get user playlists: "]

get_current_playback ==
    [name |-> "get_current_playback",
     params |-> <<<<"market", "Optional[str]", PyNone>>,
                 <<"additional_types", "Optional[str]", PyNone>>>>,
     method |-> "current_playback",
     args |-> <<<<"market", "param", "market">>,
               <<"additional_types", "param", "additional_types">>>>,
     returns |-> "placeholder",
     key |-> "playback",
     failure |-> "Failed to get current playback: "]

get_current_user ==
    [name |-> "get_current_user",
     params |-> <<>>,
     method |-> "current_user",
     args |-> <<>>,
     returns |-> "raw",
     key |-> "",
     failure |-> "Failed to get current user: "]

get_current_user_followed_artists ==
    [name |-> "get_current_user_followed_artists",
     params |-> <<<<"limit", "int", PyInt(20)>>, <<"after", "Optional[str]", PyNone>>>>,
     method |-> "current_user_followed_artists",
     args |-> <<<<"limit", "param", "limit">>, <<"after", "param", "after">>>>,
     returns |-> "raw",
     key |-> "",
     failure |-> "Failed to get followed artists: "]

check_current_user_following_artists ==
    [name |-> "check_current_user_following_artists",
     params |-> <<<<"ids", "List[str]", Required>>>>,
     method |-> "current_user_following_artists",
     args |-> <<<<"ids", "param", "ids">>>>,
     returns |-> "wrap",
     key |-> "following",
     failure |-> "Failed to check if following artists: "]

check_current_user_following_users ==
    [name |-> "check_current_user_following_users",
     params |-> <<<<"ids", "List[str]", Required>>>>,
     method |-> "current_user_following_users",
     args |-> <<<<"ids", "param", "ids">>>>,
     returns |-> "wrap",
     key |-> "following",
     failure |-> "Failed to check if following users: "]

\* get_current_user_playing_track with the placeholder key of get_currently_playing
get_current_user_playing_track_keyed_currently_playing ==
    [name |-> "get_current_user_playing_track",
     params |-> <<>>,
     method |-> "current_user_playing_track",
     args |-> <<>>,
     returns |-> "placeholder",
     key |-> "currently_playing",
     failure |-> "Failed to get currently playing track: "]

get_current_user_playing_track ==
    [name |-> "get_current_user_playing_track",
     params |-> <<>>,
     method |-> "current_user_playing_track",
     args |-> <<>>,
     returns |-> "placeholder",
     key |-> "track",
     failure |-> "Failed to get currently playing track: "]

get_current_user_playlists ==
    [name |-> "get_current_user_playlists",
     params |-> <<<<"limit", "int", PyInt(50)>>, <<"offset", "int", PyInt(0)>>>>,
     method |-> "current_user_playlists",
     args |-> <<<<"limit", "param", "limit">>, <<"offset", "param", "offset">>>>,
     returns |-> "raw",
     key |-> "",
     failure |-> "Failed to get current user playlists: "]

get_current_user_recently_played ==
    [name |-> "get_current_user_recently_played",
     params |-> <<<<"limit", "int", PyInt(50)>>, <<"after", "Optional[int]", PyNone>>,
                 <<"before", "Optional[int]", PyNone>>>>,
     method |-> "current_user_recently_played",
     args |-> <<<<"limit", "param", "limit">>, <<"after", "param", "after">>,
               <<"before", "param", "before">>>>,
     returns |-> "raw",
     key |-> "",
     failure |-> "Failed to get recently played tracks: "]

get_current_user_saved_albums ==
    [name |-> "get_current_user_saved_albums",
     params |-> <<<<"limit", "int", PyInt(20)>>, <<"offset", "int", PyInt(0)>>,
                 <<"market", "Optional[str]", PyNone>>>>,
     method |-> "current_user_saved_albums",
     args |-> <<<<"limit", "param", "limit">>, <<"offset", "param", "offset">>,
               <<"market", "param", "market">>>>,
     returns |-> "raw",
     key |-> "",
     failure |-> "Failed to get saved albums: "]

check_current_user_saved_albums ==
    [name |-> "check_current_user_saved_albums",
     params |-> <<<<"albums", "List[str]", Required>>>>,
     method |-> "current_user_saved_albums_contains",
     args |-> <<<<"albums", "param", "albums">>>>,
     returns |-> "wrap",
     key |-> "saved",
     failure |-> "Failed to check saved albums: "]

get_current_user_saved_episodes ==
    [name |-> "get_current_user_saved_episodes",
     params |-> <<<<"limit", "int", PyInt(20)>>, <<"offset", "int", PyInt(0)>>,
                 <<"market", "Optional[str]", PyNone>>>>,
     method |-> "current_user_saved_episodes",
     args |-> <<<<"limit", "param", "limit">>, <<"offset", "param", "offset">>,
               <<"market", "param", "market">>>>,
     returns |-> "raw",
     key |-> "",
     failure |-> "Failed to get saved episodes: "]

check_current_user_saved_episodes ==
    [name |-> "check_current_user_saved_episodes",
     params |-> <<<<"episodes", "List[str]", Required>>>>,
     method |-> "current_user_saved_episodes_contains",
     args |-> <<<<"episodes", "param", "episodes">>>>,
     returns |-> "wrap",
     key |-> "saved",
     failure |-> "Failed to check saved episodes: "]

get_current_user_saved_shows ==
    [name |-> "get_current_user_saved_shows",
     params |-> <<<<"limit", "int", PyInt(20)>>, <<"offset", "int", PyInt(0)>>,
                 <<"market", "Optional[str]", PyNone>>>>,
     method |-> "current_user_saved_shows",
     args |-> <<<<"limit", "param", "limit">>, <<"offset", "param", "offset">>,
               <<"market", "param", "market">>>>,
     returns |-> "raw",
     key |-> "",
     failure |-> "Failed to get saved shows: "]

check_current_user_saved_shows ==
    [name |-> "check_current_user_saved_shows",
     params |-> <<<<"shows", "List[str]", Required>>>>,
     method |-> "current_user_saved_shows_contains",
     args |-> <<<<"shows", "param", "shows">>>>,
     returns |-> "wrap",
     key |-> "saved",
     failure |-> "Failed to check saved shows: "]

get_current_user_saved_tracks ==
    [name |-> "get_current_user_saved_tracks",
     params |-> <<<<"limit", "int", PyInt(20)>>, <<"offset", "int", PyInt(0)>>,
                 <<"market", "Optional[str]", PyNone>>>>,
     method |-> "current_user_saved_tracks",
     args |-> <<<<"limit", "param", "limit">>, <<"offset", "param", "offset">>,
               <<"market", "param", "market">>>>,
     returns |-> "raw",
     key |-> "",
     failure |-> "Failed to get saved tracks: "]

\* check_current_user_saved_tracks with the key of the following checks
check_current_user_saved_tracks_keyed_following ==
    [name |-> "check_current_user_saved_tracks",
     params |-> <<<<"tracks", "List[str]", Required>>>>,
     method |-> "current_user_saved_tracks_contains",
     args |-> <<<<"tracks", "param", "tracks">>>>,
     returns |-> "wrap",
     key |-> "following",
     failure |-> "Failed to check saved tracks: "]

check_current_user_saved_tracks ==
    [name |-> "check_current_user_saved_tracks",
     params |-> <<<<"tracks", "List[str]", Required>>>>,
     method |-> "current_user_saved_tracks_contains",
     args |-> <<<<"tracks", "param", "tracks">>>>,
     returns |-> "wrap",
     key |-> "saved",
     failure |-> "Failed to check saved tracks: "]

get_current_user_top_artists ==
    [name |-> "get_current_user_top_artists",
     params |-> <<<<"limit", "int", PyInt(20)>>, <<"offset", "int", PyInt(0)>>,
                 <<"time_range", "str", PyStr("medium_term")>>>>,
     method |-> "current_user_top_artists",
     args |-> <<<<"limit", "param", "limit">>, <<"offset", "param", "offset">>,
               <<"time_range", "param", "time_range">>>>,
     returns |-> "raw",
     key |-> "",
     failure |-> "Failed to get top artists: "]

get_current_user_top_tracks ==
    [name |-> "get_current_user_top_tracks",
     params |-> <<<<"limit", "int", PyInt(20)>>, <<"offset", "int", PyInt(0)>>,
                 <<"time_range", "str", PyStr("medium_term")>>>>,
     method |-> "current_user_top_tracks",
     args |-> <<<<"limit", "param", "limit">>, <<"offset", "param", "offset">>,
               <<"time_range", "param", "time_range">>>>,
     returns |-> "raw",
     key |-> "",
     failure |-> "Failed to get top tracks: "]

\* get_currently_playing with the ": " left out of its failure text
get_currently_playing_without_separator ==
    [name |-> "get_currently_playing",
     params |-> <<<<"market", "Optional[str]", PyNone>>,
                 <<"additional_types", "Optional[str]", PyNone>>>>,
     method |-> "currently_playing",
     args |-> <<<<"market", "param", "market">>,
               <<"additional_types", "param", "additional_types">>>>,
     returns |-> "placeholder",
     key |-> "currently_playing",
     failure |-> "Failed to get currently playing"]

get_currently_playing ==
    [name |-> "get_currently_playing",
     params |-> <<<<"market", "Optional[str]", PyNone>>,
                 <<"additional_types", "Optional[str]", PyNone>>>>,
     method |-> "currently_playing",
     args |-> <<<<"market", "param", "market">>,
               <<"additional_types", "param", "additional_types">>>>,
     returns |-> "placeholder",
     key |-> "currently_playing",
     failure |-> "Failed to get currently playing: "]

get_devices ==
    [name |-> "get_devices",
     params |-> <<>>,
     method |-> "devices",
     args |-> <<>>,
     returns |-> "raw",
     key |-> "",
     failure |-> "Failed to get devices: "]

get_playlist_items ==
    [name |-> "get_playlist_items",
     params |-> <<<<"playlist_id", "str", Required>>, <<"fields", "Optional[str]", PyNone>>,
                 <<"limit", "int", PyInt(100)>>, <<"offset", "int", PyInt(0)>>,
                 <<"market", "Optional[str]", PyNone>>,
                 <<"additional_types", "str", PyStr("track,episode")>>>>,
     method |-> "playlist_items",
     args |-> <<<<"", "param", "playlist_id">>, <<"fields", "param", "fields">>,
               <<"limit", "param", "limit">>, <<"offset", "param", "offset">>,
               <<"market", "param", "market">>,
               <<"additional_types", "local", "additional_types_tuple">>>>,
     returns |-> "raw",
     key |-> "",
     failure |-> "Failed to get playlist items: "]

get_queue ==
    [name |-> "get_queue",
     params |-> <<>>,
     method |-> "queue",
     args |-> <<>>,
     returns |-> "raw",
     key |-> "",
     failure |-> "Failed to get queue: "]

search_general ==
    [name |-> "search_general",
     params |-> <<<<"query", "str", Required>>, <<"limit", "int", PyInt(10)>>,
                 <<"offset", "int", PyInt(0)>>, <<"type", "str", PyStr("track")>>,
                 <<"market", "Optional[str]", PyNone>>>>,
     method |-> "search",
     args |-> <<<<"q", "param", "query">>, <<"limit", "param", "limit">>,
               <<"offset", "param", "offset">>, <<"type", "param", "type">>,
               <<"market", "param", "market">>>>,
     returns |-> "raw",
     key |-> "",
     failure |-> "Search failed: "]

search_markets ==
    [name |-> "search_markets",
     params |-> <<<<"query", "str", Required>>, <<"limit", "int", PyInt(10)>>,
                 <<"offset", "int", PyInt(0)>>, <<"type", "str", PyStr("track")>>,
                 <<"markets", "Optional[List[str]]", PyNone>>,
                 <<"total", "Optional[int]", PyNone>>>>,
     method |-> "search_markets",
     args |-> <<<<"q", "param", "query">>, <<"limit", "param", "limit">>,
               <<"offset", "param", "offset">>, <<"type", "param", "type">>,
               <<"markets", "param", "markets">>, <<"total", "param", "total">>>>,
     returns |-> "raw",
     key |-> "",
     failure |-> "Multi-market search failed: "]

get_user_playlist ==
    [name |-> "get_user_playlist",
     params |-> <<<<"user_id", "str", Required>>, <<"playlist_id", "str", Required>>,
                 <<"fields", "Optional[str]", PyNone>>, <<"market", "Optional[str]", PyNone>>>>,
     method |-> "user_playlist",
     args |-> <<<<"", "param", "user_id">>, <<"", "param", "playlist_id">>,
               <<"fields", "param", "fields">>, <<"market", "param", "market">>>>,
     returns |-> "raw",
     key |-> "",
     failure |-> "Failed to get user playlist: "]

Operations ==
    {get_album_info, get_album_tracks, get_albums, get_artist_info, get_artist_albums,
     get_artist_related_artists, get_artist_top_tracks, get_artists, get_audio_analysis,
     get_audio_features, get_available_markets, get_categories, get_category,
     get_category_playlists, get_episode, get_episodes, get_featured_playlists, get_audiobook,
     get_audiobook_chapters, get_audiobooks, get_new_releases, get_playlist_info,
     get_playlist_tracks, playlist_cover_image, playlist_is_following, get_available_genres,
     get_recommendations, search_tracks, search_artists, search_albums, search_playlists,
     get_show, get_show_episodes, get_shows, get_track_info, get_tracks, get_user,
     get_user_playlists, get_current_playback, get_current_user,
     get_current_user_followed_artists, check_current_user_following_artists,
     check_current_user_following_users, get_current_user_playing_track,
     get_current_user_playlists, get_current_user_recently_played,
     get_current_user_saved_albums, check_current_user_saved_albums,
     get_current_user_saved_episodes, check_current_user_saved_episodes,
     get_current_user_saved_shows, check_current_user_saved_shows,
     get_current_user_saved_tracks, check_current_user_saved_tracks,
     get_current_user_top_artists, get_current_user_top_tracks, get_currently_playing,
     get_devices, get_playlist_items, get_queue, search_general, search_markets,
     get_user_playlist}

\* the handler of a given name
Op(name) == CHOOSE o \in Operations : o.name = name

ParamNames(op) == {op.params[j][1] : j \in 1..Len(op.params)}

\* ------------------------------------------------------------ environment
\* bearer tokens callers supply
Tokens == {"tokenA", "tokenB"}

\* identifiers callers ask about
Ids == {"id1", "id2"}

\* the identifiers the remote user has saved or follows
RemoteLibrary == {"id1"}

\* characters of an additional_types string
Alphabet == {"t", "e", ","}

RECURSIVE Strings(_)
Strings(n) ==
    IF n = 0 THEN {""}
    ELSE Strings(n - 1) \cup {s \o c : s \in Strings(n - 1), c \in Alphabet}

RECURSIVE IdLists(_)
IdLists(n) ==
    IF n = 0 THEN {<<>>}
    ELSE IdLists(n - 1)
         \cup {Append(l, PyStr(x)) : l \in {m \in IdLists(n - 1) : Len(m) = n - 1}, x \in Ids}

\* what a delegated call other than an existence check may answer: nothing,
\* empty and non-empty mappings and lists, a mapping with an "error" key
Responses ==
    {PyNone,
     PyDict(<<>>),
     PyList(<<>>),
     PyDict(<<<<"id", PyStr("abc123")>>>>),
     PyDict(<<<<"error", PyStr("remote")>>>>),
     PyList(<<PyNone>>)}

\* what may be raised while building the client or inside the delegated call
Failures ==
    {Raised("SpotifyException", "http status: 401, code: -1 - The access token expired, reason: None"),
     Raised("ConnectionError", "Connection refused"),
     Raised("KeyboardInterrupt", "")}

\* the client methods that answer one boolean per identifier asked about
ContainsMethods ==
    {"playlist_is_following", "current_user_following_artists",
     "current_user_following_users", "current_user_saved_albums_contains",
     "current_user_saved_episodes_contains", "current_user_saved_shows_contains",
     "current_user_saved_tracks_contains"}

\* the value a caller gives a parameter unless stated otherwise: its default,
\* or for a required one a list of one identifier or a string naming it
BaseValue(p) ==
    IF p[3] # Required THEN p[3]
    ELSE IF p[2] = "List[str]" THEN PyList(<<PyStr("id1")>>)
    ELSE PyStr(p[1])

\* the other values a caller may give a parameter: identifier lists, the
\* additional_types strings, and for a parameter with a default a value of its
\* own in place of the default
Variants(op, p) ==
    IF p[2] = "List[str]" THEN {PyList(l) : l \in IdLists(MaxIds)}
    ELSE IF op.name = "get_playlist_items" /\ p[1] = "additional_types"
    THEN {PyStr(s) : s \in Strings(MaxStrLen)} \cup {PyNone, PyList(<<PyStr("track")>>)}
    ELSE IF p[3] = Required THEN {}
    ELSE IF p[2] = "Optional[List[str]]" THEN {PyList(<<PyStr("id1")>>)}
    ELSE IF p[2] \in {"int", "Optional[int]", "Optional[float]"} THEN {PyInt(1)}
    ELSE {PyStr(p[1])}

BaseArgs(op) ==
    [n \in ParamNames(op) |->
        BaseValue(op.params[CHOOSE j \in 1..Len(op.params) : op.params[j][1] = n])]

\* the argument lists a handler is invoked with: every parameter at its base
\* value, or one of them at another value
ArgSpace(op) ==
    {BaseArgs(op)}
    \cup UNION {{[BaseArgs(op) EXCEPT ![op.params[j][1]] = v] : v \in Variants(op, op.params[j])}
                : j \in 1..Len(op.params)}

\* ------------------------------------------------------------------ state
\* inv[i]: the invocation served in slot i, with the handler's locals
\* handles: the number of client objects constructed so far
\* globals: the names bound at module level
VARIABLES inv, handles, globals

vars == <<inv, handles, globals>>

\* the module's namespace once it is loaded: the tool host, the client factory
\* and one name per handler
ModuleNames == {"mcp", "get_spotify_client"} \cup {o.name : o \in Operations}

Invocations == 1..NumInvocations

NoHandle == [id |-> 0, auth |-> ""]

NoCall == [method |-> "", handle |-> NoHandle, args |-> <<>>]

Idle ==
    [pc |-> "idle", op |-> "", token |-> "", args |-> <<>>, spotify |-> NoHandle,
     call |-> NoCall, ncalls |-> 0, response |-> Unset, exc |-> NoExc,
     failedAt |-> "", result |-> Unset]

\* ------------------------------------------------------ the handlers' code
\* one client per token, built once and shared by the invocations that carry it
get_spotify_client_cached(token, n) ==
    [id |-> IF token = "tokenA" THEN 1 ELSE 2, auth |-> token]

\* spotipy.Spotify(auth=token): a new client object, the n-th constructed
get_spotify_client(token, n) == [id |-> n, auth |-> token]

\* s.split(sep) for a one-character sep
RECURSIVE Split(_, _)
Split(s, sep) ==
    IF \E j \in 1..Len(s) : SubSeq(s, j, j) = sep
    THEN LET j == CHOOSE k \in 1..Len(s) :
                      /\ SubSeq(s, k, k) = sep
                      /\ \A m \in 1..(k - 1) : SubSeq(s, m, m) # sep
         IN <<SubSeq(s, 1, j - 1)>> \o Split(SubSeq(s, j + 1, Len(s)), sep)
    ELSE <<s>>

\* the conversion without its default: every value is split
additional_types_tuple_without_default(additional_types) ==
    IF additional_types # PyNone /\ additional_types.t = "str"
    THEN [raised |-> NoExc,
          value |-> PyTuple([j \in 1..Len(Split(additional_types.s, ",")) |->
                                PyStr(Split(additional_types.s, ",")[j])])]
    ELSE [raised |-> Raised("AttributeError",
                            "'" \o additional_types.t \o "' object has no attribute 'split'"),
          value |-> Unset]

\* tuple(additional_types.split(",")) if additional_types else ("track", "episode");
\* .split exists on str only
additional_types_tuple(additional_types) ==
    IF Truthy(additional_types)
    THEN IF additional_types.t = "str"
         THEN [raised |-> NoExc,
               value |-> PyTuple([j \in 1..Len(Split(additional_types.s, ",")) |->
                                     PyStr(Split(additional_types.s, ",")[j])])]
         ELSE [raised |-> Raised("AttributeError",
                                 "'" \o additional_types.t \o "' object has no attribute 'split'"),
               value |-> Unset]
    ELSE [raised |-> NoExc, value |-> PyTuple(<<PyStr("track"), PyStr("episode")>>)]

\* the statements between building the client and the call: the value of the
\* local variable they assign, or what they raise
Locals(op, args) ==
    IF \E j \in 1..Len(op.args) : op.args[j][2] = "local"
    THEN additional_types_tuple(args["additional_types"])
    ELSE [raised |-> NoExc, value |-> Unset]

\* the delegated call made without the handler's last argument
CallArgsDroppingLast(op, args, local) ==
    [j \in 1..(Len(op.args) - 1) |->
        <<op.args[j][1],
          CASE op.args[j][2] = "param" -> args[op.args[j][3]]
            [] op.args[j][2] = "const" -> PyStr(op.args[j][3])
            [] op.args[j][2] = "local" -> local>>]

\* the arguments of the delegated call, in order, each <<keyword, value>>
CallArgs(op, args, local) ==
    [j \in 1..Len(op.args) |->
        <<op.args[j][1],
          CASE op.args[j][2] = "param" -> args[op.args[j][3]]
            [] op.args[j][2] = "const" -> PyStr(op.args[j][3])
            [] op.args[j][2] = "local" -> local>>]

\* the conditional of a placeholder handler inverted
ReturnValueInverted(op, x) ==
    CASE op.returns = "raw" -> x
      [] op.returns = "placeholder" -> IF Truthy(x) THEN PyDict(<<<<op.key, PyNone>>>>) ELSE x
      [] op.returns = "wrap" -> PyDict(<<<<op.key, x>>>>)

\* an empty mapping in place of the placeholder
ReturnValueEmptyMapping(op, x) ==
    CASE op.returns = "raw" -> x
      [] op.returns = "placeholder" -> IF Truthy(x) THEN x ELSE PyDict(<<>>)
      [] op.returns = "wrap" -> PyDict(<<<<op.key, x>>>>)

\* the placeholder substituted only for None
ReturnValuePlaceholderForNoneOnly(op, x) ==
    CASE op.returns = "raw" -> x
      [] op.returns = "placeholder" -> IF x # PyNone THEN x ELSE PyDict(<<<<op.key, PyNone>>>>)
      [] op.returns = "wrap" -> PyDict(<<<<op.key, x>>>>)

\* the pass-through handlers guarded like the placeholder handlers
ReturnValueRawGuarded(op, x) ==
    CASE op.returns = "raw" -> IF Truthy(x) THEN x ELSE PyDict(<<<<"result", PyNone>>>>)
      [] op.returns = "placeholder" -> IF Truthy(x) THEN x ELSE PyDict(<<<<op.key, PyNone>>>>)
      [] op.returns = "wrap" -> PyDict(<<<<op.key, x>>>>)

\* the wrapping handlers guarded like the placeholder handlers
ReturnValueWrapGuarded(op, x) ==
    CASE op.returns = "raw" -> x
      [] op.returns = "placeholder" -> IF Truthy(x) THEN x ELSE PyDict(<<<<op.key, PyNone>>>>)
      [] op.returns = "wrap" ->
           IF Truthy(x) THEN PyDict(<<<<op.key, x>>>>) ELSE PyDict(<<<<op.key, PyNone>>>>)

\* a result numbered by a counter kept across invocations
ReturnValueNumbered(op, x) ==
    PyDict(<<<<"call", PyInt(handles)>>,
             <<"result", CASE op.returns = "raw" -> x
                           [] op.returns = "placeholder" ->
                                IF Truthy(x) THEN x ELSE PyDict(<<<<op.key, PyNone>>>>)
                           [] op.returns = "wrap" -> PyDict(<<<<op.key, x>>>>)>>>>)

\* the handler's return expression applied to the delegated call's answer
ReturnValue(op, x) ==
    CASE op.returns = "raw" -> x
      [] op.returns = "placeholder" -> IF Truthy(x) THEN x ELSE PyDict(<<<<op.key, PyNone>>>>)
      [] op.returns = "wrap" -> PyDict(<<<<op.key, x>>>>)

\* an except clause naming the client library's exception class only
CatchesSpotifyException(e) == "SpotifyException" \in Bases(e.cls)

\* `except Exception as e` matches e
Catches(e) == "Exception" \in Bases(e.cls)

\* an error result that leaves out str(e)
ErrorResultWithoutDescription(op, e) == PyDict(<<<<"error", PyStr(op.failure)>>>>)

\* {"error": f"<failure text>{str(e)}"}
ErrorResult(op, e) == PyDict(<<<<"error", PyStr(op.failure \o Str(e))>>>>)

\* ---------------------------------------------------- the client library
\* the identifier list of an existence check: its one list argument
CheckedIds(call) ==
    call.args[CHOOSE j \in 1..Len(call.args) : call.args[j][2].t = "list"][2]

\* the remote's answer to an existence check: one boolean per identifier, in order
Contains(call) ==
    PyList([j \in 1..Len(CheckedIds(call).items) |->
               PyBool(CheckedIds(call).items[j].s \in RemoteLibrary)])

\* ---------------------------------------------------------------- actions
Init ==
    /\ inv = [i \in Invocations |-> Idle]
    /\ handles = 0
    /\ globals = ModuleNames

\* the tool host calls a handler of the catalog with a token and arguments
Invoke(i, catalog) ==
    /\ inv[i].pc = "idle"
    /\ handles < MaxHandles
    /\ \E op \in catalog, token \in Tokens :
         \E args \in ArgSpace(op) :
            inv' = [inv EXCEPT ![i] = [Idle EXCEPT !.pc = "try", !.op = op.name,
                                                   !.token = token, !.args = args]]
    /\ UNCHANGED <<handles, globals>>

\* the client built before the try block is entered
GetClientOutsideTry(i) ==
    /\ inv[i].pc = "try"
    /\ \/ /\ inv' = [inv EXCEPT ![i].pc = "client",
                                ![i].spotify = get_spotify_client(inv[i].token, handles + 1)]
          /\ handles' = handles + 1
          /\ UNCHANGED globals
       \/ /\ \E e \in Failures :
                inv' = [inv EXCEPT ![i].pc = "raised", ![i].exc = e, ![i].failedAt = "client"]
          /\ UNCHANGED <<handles, globals>>

\* the client kept in a module-level table once built
GetClientCaching(i) ==
    /\ inv[i].pc = "try"
    /\ \/ /\ inv' = [inv EXCEPT ![i].pc = "client",
                                ![i].spotify = get_spotify_client(inv[i].token, handles + 1)]
          /\ handles' = handles + 1
          /\ globals' = globals \cup {"_clients"}
       \/ /\ \E e \in Failures :
                inv' = [inv EXCEPT ![i].pc = "raising", ![i].exc = e, ![i].failedAt = "client"]
          /\ UNCHANGED <<handles, globals>>

\* spotify = get_spotify_client(token)
GetClient(i) ==
    /\ inv[i].pc = "try"
    /\ \/ /\ inv' = [inv EXCEPT ![i].pc = "client",
                                ![i].spotify = get_spotify_client(inv[i].token, handles + 1)]
          /\ handles' = handles + 1
          /\ UNCHANGED globals
       \/ /\ \E e \in Failures :
                inv' = [inv EXCEPT ![i].pc = "raising", ![i].exc = e, ![i].failedAt = "client"]
          /\ UNCHANGED <<handles, globals>>

\* the delegated call issued twice by one invocation
CallIssuedTwice(i) ==
    /\ inv[i].pc = "client"
    /\ LET op == Op(inv[i].op)
           local == Locals(op, inv[i].args)
       IN IF local.raised # NoExc
          THEN inv' = [inv EXCEPT ![i].pc = "raising", ![i].exc = local.raised,
                                  ![i].failedAt = "local"]
          ELSE inv' = [inv EXCEPT ![i].pc = "waiting", ![i].ncalls = @ + 2,
                                  ![i].call = [method |-> op.method,
                                               handle |-> inv[i].spotify,
                                               args |-> CallArgs(op, inv[i].args, local.value)]]
    /\ UNCHANGED <<handles, globals>>

\* result = spotify.<method>(...), up to the request being sent; a statement
\* before the call that raises ends the try block without a call
Call(i) ==
    /\ inv[i].pc = "client"
    /\ LET op == Op(inv[i].op)
           local == Locals(op, inv[i].args)
       IN IF local.raised # NoExc
          THEN inv' = [inv EXCEPT ![i].pc = "raising", ![i].exc = local.raised,
                                  ![i].failedAt = "local"]
          ELSE inv' = [inv EXCEPT ![i].pc = "waiting", ![i].ncalls = @ + 1,
                                  ![i].call = [method |-> op.method,
                                               handle |-> inv[i].spotify,
                                               args |-> CallArgs(op, inv[i].args, local.value)]]
    /\ UNCHANGED <<handles, globals>>

\* the delegated call returns an answer or raises
Respond(i) ==
    /\ inv[i].pc = "waiting"
    /\ \/ /\ inv[i].call.method \in ContainsMethods
          /\ inv' = [inv EXCEPT ![i].pc = "responded", ![i].response = Contains(inv[i].call)]
       \/ /\ inv[i].call.method \notin ContainsMethods
          /\ \E r \in Responses :
                inv' = [inv EXCEPT ![i].pc = "responded", ![i].response = r]
       \/ \E e \in Failures :
             inv' = [inv EXCEPT ![i].pc = "raising", ![i].exc = e, ![i].failedAt = "call"]
    /\ UNCHANGED <<handles, globals>>

\* the return statement of the try block
Return(i) ==
    /\ inv[i].pc = "responded"
    /\ inv' = [inv EXCEPT ![i].pc = "done",
                          ![i].result = ReturnValue(Op(inv[i].op), inv[i].response)]
    /\ UNCHANGED <<handles, globals>>

\* the except clause sending the handler back to its delegated call
ExceptRetrying(i) ==
    /\ inv[i].pc = "raising"
    /\ IF Catches(inv[i].exc)
       THEN inv' = [inv EXCEPT ![i].pc = "client", ![i].exc = NoExc, ![i].failedAt = ""]
       ELSE inv' = [inv EXCEPT ![i].pc = "raised"]
    /\ UNCHANGED <<handles, globals>>

\* the error result kept where every invocation returns from: a failure in one
\* invocation replaces the result of the invocations that have returned
ExceptSharedError(i) ==
    /\ inv[i].pc = "raising"
    /\ IF Catches(inv[i].exc)
       THEN inv' = [k \in Invocations |->
                      IF k = i
                      THEN [inv[i] EXCEPT !.pc = "done",
                                          !.result = ErrorResult(Op(inv[i].op), inv[i].exc)]
                      ELSE IF inv[k].pc = "done"
                      THEN [inv[k] EXCEPT !.result = ErrorResult(Op(inv[i].op), inv[i].exc)]
                      ELSE inv[k]]
       ELSE inv' = [inv EXCEPT ![i].pc = "raised"]
    /\ UNCHANGED <<handles, globals>>

\* the except clause: it returns the error result, or does not match and the
\* exception leaves the handler
Except(i) ==
    /\ inv[i].pc = "raising"
    /\ IF Catches(inv[i].exc)
       THEN inv' = [inv EXCEPT ![i].pc = "done",
                               ![i].result = ErrorResult(Op(inv[i].op), inv[i].exc)]
       ELSE inv' = [inv EXCEPT ![i].pc = "raised"]
    /\ UNCHANGED <<handles, globals>>

\* the tool host takes the outcome; the handler's frame is gone
Deliver(i) ==
    /\ inv[i].pc \in {"done", "raised"}
    /\ inv' = [inv EXCEPT ![i] = Idle]
    /\ UNCHANGED <<handles, globals>>

AllIdle == \A j \in Invocations : inv[j].pc = "idle"

\* the tool host serving one invocation at a time, over the whole catalog
Next ==
    \E i \in Invocations :
        \/ AllIdle /\ Invoke(i, Operations)
        \/ GetClient(i)
        \/ Call(i)
        \/ Respond(i)
        \/ Return(i)
        \/ Except(i)
        \/ Deliver(i)

Spec == Init /\ [][Next]_vars

\* handlers served side by side: a pass-through handler, a placeholder handler
\* and an existence check
ConcurrentCatalog ==
    {get_track_info, get_current_user_playing_track, check_current_user_saved_tracks}

\* the tool host serving invocations concurrently, every interleaving of their steps
NextConcurrent ==
    \E i \in Invocations :
        \/ Invoke(i, ConcurrentCatalog)
        \/ GetClient(i)
        \/ Call(i)
        \/ Respond(i)
        \/ Return(i)
        \/ Except(i)
        \/ Deliver(i)

SpecConcurrent == Init /\ [][NextConcurrent]_vars

\* the interpreter runs a handler on once its delegated call has returned or
\* raised: the return statement and the except clause are not held up. Nothing
\* is assumed of the remote side answering or of the host taking results.
HandlersRun == \A i \in Invocations : WF_vars(Return(i)) /\ WF_vars(Except(i))

\* handlers without list or string variants, served side by side
LiveCatalog == {get_queue, get_track_info, get_current_user_playing_track}

NextLive ==
    \E i \in Invocations :
        \/ Invoke(i, LiveCatalog)
        \/ GetClient(i)
        \/ Call(i)
        \/ Respond(i)
        \/ Return(i)
        \/ Except(i)
        \/ Deliver(i)

SpecLive == Init /\ [][NextLive]_vars /\ HandlersRun

\* ------------------------------------------------------------- properties
\* an invocation that has returned a result to its caller
Returned(i) == inv[i].pc = "done"

\* a failure: an exception of a class derived from Exception (KeyboardInterrupt
\* and the other classes derived from BaseException alone are not failures)
IsFailure(e) == e # NoExc /\ "Exception" \in Bases(e.cls)

\* the fixed failure prefix of a handler: its error text up to the ": "
FailurePrefix(op) == SubSeq(op.failure, 1, Len(op.failure) - 2)

\* C1: whenever the delegated call raises a failure, the handler returns a
\* mapping with exactly one field, "error", whose value is the handler's fixed
\* failure prefix, then ": ", then the failure's description; for
\* get_track_info the prefix is "Failed to get track info".
C1_ErrorResultOfFailedCall ==
    \A i \in Invocations :
        (inv[i].failedAt = "call" /\ IsFailure(inv[i].exc) /\ inv[i].pc \in {"done", "raised"})
        => /\ Returned(i)
           /\ IsMapping(inv[i].result)
           /\ Len(inv[i].result.items) = 1
           /\ inv[i].result.items[1][1] = "error"
           /\ inv[i].result.items[1][2]
                = PyStr(FailurePrefix(Op(inv[i].op)) \o ": " \o Str(inv[i].exc))
           /\ (inv[i].op = "get_track_info"
               => inv[i].result.items[1][2].s = "Failed to get track info: " \o Str(inv[i].exc))

C1_Witness ==
    \E i \in Invocations :
        /\ Returned(i)
        /\ inv[i].op = "get_track_info"
        /\ inv[i].failedAt = "call"
        /\ inv[i].exc.cls = "SpotifyException"
        /\ inv[i].result = PyDict(<<<<"error", PyStr("Failed to get track info: " \o Str(inv[i].exc))>>>>)

\* C2: no invocation ends by raising a failure: whether the failure is raised
\* while the client handle is built, in the handler's own argument handling or
\* in the delegated call, the invocation ends by returning a result.
C2_NoFailurePropagates ==
    \A i \in Invocations :
        IsFailure(inv[i].exc)
        => /\ inv[i].pc # "raised"
           /\ inv[i].pc \in {"raising", "done"}
           /\ (Returned(i) => inv[i].result # Unset)

C2_Witness ==
    \E i \in Invocations :
        /\ Returned(i)
        /\ inv[i].failedAt = "local"
        /\ inv[i].exc.cls = "AttributeError"
        /\ inv[i].ncalls = 0
        /\ HasKey(inv[i].result, "error")

\* an invocation whose try block ran to its return statement
Succeeded(i) == Returned(i) /\ inv[i].exc = NoExc

\* an empty or absent answer: None, an empty mapping, an empty list
EmptyOrAbsent(v) == v = PyNone \/ (v.t \in {"dict", "list"} /\ Len(v.items) = 0)

ExistenceChecks ==
    {"playlist_is_following", "check_current_user_following_artists",
     "check_current_user_following_users", "check_current_user_saved_albums",
     "check_current_user_saved_episodes", "check_current_user_saved_shows",
     "check_current_user_saved_tracks"}

WrappingOperations == ExistenceChecks \cup {"playlist_cover_image"}

\* C3 as stated: for every operation, a successful delegated call with a
\* non-empty response makes the result exactly that response.
C3_Original_NonEmptyResponseUnmodified ==
    \A i \in Invocations :
        (Succeeded(i) /\ ~EmptyOrAbsent(inv[i].response)) => inv[i].result = inv[i].response

\* C3 (amended): for every operation other than playlist_cover_image and the
\* seven existence checks, a successful delegated call with a non-empty
\* response makes the result exactly that response; those eight return a
\* mapping with one key whose value is the response, unmodified.
C3_NonEmptyResponseUnmodified ==
    \A i \in Invocations :
        (Succeeded(i) /\ ~EmptyOrAbsent(inv[i].response))
        => IF inv[i].op \in WrappingOperations
           THEN /\ IsMapping(inv[i].result)
                /\ Len(inv[i].result.items) = 1
                /\ inv[i].result.items[1][2] = inv[i].response
           ELSE inv[i].result = inv[i].response

C3_Witness ==
    \E i \in Invocations :
        /\ Succeeded(i)
        /\ inv[i].op = "get_album_info"
        /\ inv[i].response = PyDict(<<<<"id", PyStr("abc123")>>>>)
        /\ inv[i].result = inv[i].response

\* C4: a returned result holds an "error" field if and only if the invocation
\* failed, whatever the remote response contains.
C4_ErrorFieldIffFailed ==
    \A i \in Invocations :
        Returned(i) => (HasKey(inv[i].result, "error") <=> inv[i].exc # NoExc)

\* shape (a): the delegated call's response itself
ShapeRaw(i) == inv[i].response # Unset /\ inv[i].result = inv[i].response

\* shape (b): a single key holding None
ShapePlaceholder(i) ==
    /\ IsMapping(inv[i].result)
    /\ Len(inv[i].result.items) = 1
    /\ inv[i].result.items[1][2] = PyNone

\* shape (c): one field, "error", holding a message
ShapeError(i) ==
    /\ IsMapping(inv[i].result)
    /\ Len(inv[i].result.items) = 1
    /\ inv[i].result.items[1][1] = "error"
    /\ inv[i].result.items[1][2].t = "str"

\* shape (d): the response under one fixed key
ShapeWrapped(i) ==
    /\ inv[i].response # Unset
    /\ \E k \in {"following", "saved", "images"} :
          inv[i].result = PyDict(<<<<k, inv[i].response>>>>)

\* C5 as stated: every result is the raw response, a single-key placeholder
\* with a null value, or a single-field error object.
C5_Original_ThreeShapes ==
    \A i \in Invocations :
        Returned(i) => (ShapeRaw(i) \/ ShapePlaceholder(i) \/ ShapeError(i))

\* C5 (amended): every result is the raw response, a single-key placeholder
\* with a null value, a single-field error object, or the raw response under
\* one fixed key ("following", "saved", "images"); nothing else is returned.
C5_FourShapes ==
    \A i \in Invocations :
        Returned(i)
        => (ShapeRaw(i) \/ ShapePlaceholder(i) \/ ShapeError(i) \/ ShapeWrapped(i))

C5_Witness ==
    \E i \in Invocations :
        /\ Succeeded(i)
        /\ inv[i].op = "playlist_is_following"
        /\ ShapeWrapped(i)
        /\ ~ShapeRaw(i) /\ ~ShapePlaceholder(i) /\ ~ShapeError(i)

\* C6: every result is a mapping: on success with a non-empty response, on
\* success with an empty or absent response, and on failure.
C6_ResultIsMapping ==
    \A i \in Invocations : Returned(i) => IsMapping(inv[i].result)

\* C7: get_current_user_playing_track returns {"track": None} whenever the
\* delegated call succeeds with an empty or absent result, and the delegated
\* result unchanged whenever it is non-empty.
C7_PlayingTrackPlaceholder ==
    \A i \in Invocations :
        (Succeeded(i) /\ inv[i].op = "get_current_user_playing_track")
        => IF EmptyOrAbsent(inv[i].response)
           THEN inv[i].result = PyDict(<<<<"track", PyNone>>>>)
           ELSE inv[i].result = inv[i].response

C7_Witness ==
    \E i \in Invocations :
        /\ Succeeded(i)
        /\ inv[i].op = "get_current_user_playing_track"
        /\ inv[i].response = PyNone
        /\ inv[i].result = PyDict(<<<<"track", PyNone>>>>)

\* C8: get_current_playback and get_currently_playing return {"playback": None}
\* and {"currently_playing": None} for an empty or absent delegated result, and
\* a non-empty delegated result unchanged.
C8_PlaybackPlaceholders ==
    \A i \in Invocations :
        /\ (Succeeded(i) /\ inv[i].op = "get_current_playback")
           => IF EmptyOrAbsent(inv[i].response)
              THEN inv[i].result = PyDict(<<<<"playback", PyNone>>>>)
              ELSE inv[i].result = inv[i].response
        /\ (Succeeded(i) /\ inv[i].op = "get_currently_playing")
           => IF EmptyOrAbsent(inv[i].response)
              THEN inv[i].result = PyDict(<<<<"currently_playing", PyNone>>>>)
              ELSE inv[i].result = inv[i].response

C8_Witness ==
    \E i \in Invocations :
        /\ Succeeded(i)
        /\ inv[i].op = "get_current_playback"
        /\ inv[i].response = PyDict(<<>>)
        /\ inv[i].result = PyDict(<<<<"playback", PyNone>>>>)

\* C9: get_audio_features returns {"audio_features": None} whenever the
\* delegated call succeeds with an empty or absent result.
C9_AudioFeaturesPlaceholder ==
    \A i \in Invocations :
        (Succeeded(i) /\ inv[i].op = "get_audio_features" /\ EmptyOrAbsent(inv[i].response))
        => inv[i].result = PyDict(<<<<"audio_features", PyNone>>>>)

C9_Witness ==
    \E i \in Invocations :
        /\ Succeeded(i)
        /\ inv[i].op = "get_audio_features"
        /\ inv[i].response = PyList(<<>>)
        /\ inv[i].result = PyDict(<<<<"audio_features", PyNone>>>>)

\* the identifier list the caller gave an existence check
GivenIds(i) ==
    inv[i].args[CASE inv[i].op = "playlist_is_following" -> "user_ids"
                  [] inv[i].op \in {"check_current_user_following_artists",
                                    "check_current_user_following_users"} -> "ids"
                  [] inv[i].op = "check_current_user_saved_albums" -> "albums"
                  [] inv[i].op = "check_current_user_saved_episodes" -> "episodes"
                  [] inv[i].op = "check_current_user_saved_shows" -> "shows"
                  [] inv[i].op = "check_current_user_saved_tracks" -> "tracks"].items

\* the fixed key of an existence check
CheckKey(name) ==
    IF name \in {"playlist_is_following", "check_current_user_following_artists",
                 "check_current_user_following_users"}
    THEN "following" ELSE "saved"

\* C10: a successful existence check of N identifiers returns, under its fixed
\* key, a list of exactly N booleans, the j-th answering for the j-th
\* identifier; ["id1", "id2"] with id1 saved and id2 not gives
\* {"saved": [True, False]}.
C10_ExistenceCheckAnswers ==
    \A i \in Invocations :
        (Succeeded(i) /\ inv[i].op \in ExistenceChecks)
        => /\ IsMapping(inv[i].result)
           /\ Keys(inv[i].result) = {CheckKey(inv[i].op)}
           /\ Len(inv[i].result.items) = 1
           /\ Get(inv[i].result, CheckKey(inv[i].op)).t = "list"
           /\ Len(Get(inv[i].result, CheckKey(inv[i].op)).items) = Len(GivenIds(i))
           /\ \A j \in 1..Len(GivenIds(i)) :
                 Get(inv[i].result, CheckKey(inv[i].op)).items[j]
                   = PyBool(GivenIds(i)[j].s \in RemoteLibrary)

C10_Witness ==
    \E i \in Invocations :
        /\ Succeeded(i)
        /\ inv[i].op = "check_current_user_saved_tracks"
        /\ GivenIds(i) = <<PyStr("id1"), PyStr("id2")>>
        /\ inv[i].result = PyDict(<<<<"saved", PyList(<<PyBool(TRUE), PyBool(FALSE)>>)>>>>)

\* two invocations of the same handler with the same token and arguments
SameRequest(i, j) ==
    /\ inv[i].op = inv[j].op
    /\ inv[i].token = inv[j].token
    /\ inv[i].args = inv[j].args

\* the remote side behaved the same towards both: the same answer, or the same
\* failure at the same place
SameOutcome(i, j) ==
    /\ inv[i].response = inv[j].response
    /\ inv[i].exc = inv[j].exc
    /\ inv[i].failedAt = inv[j].failedAt

\* C11: a handler invoked twice with the same token and arguments, whatever the
\* interleaving of the two invocations, returns the same result both times
\* when the remote side behaves the same towards both: neither invocation
\* leaves anything behind that changes the other's result.
C11_Idempotent ==
    \A i, j \in Invocations :
        (i # j /\ Returned(i) /\ Returned(j) /\ SameRequest(i, j) /\ SameOutcome(i, j))
            => inv[i].result = inv[j].result

\* the same request served twice, the second begun after the first had
\* returned, both with the remote's answer passed on
C11_Witness ==
    \E i, j \in Invocations :
        /\ i # j /\ Succeeded(i) /\ Succeeded(j) /\ SameRequest(i, j) /\ SameOutcome(i, j)
        /\ inv[i].op = "get_track_info"
        /\ inv[i].spotify.id < inv[j].spotify.id
        /\ inv[i].result = PyDict(<<<<"id", PyStr("abc123")>>>>)

\* an invocation whose handler has returned or let an exception out
Ended(i) == inv[i].pc \in {"done", "raised"}

C13_OwnHandle ==
    \A i \in Invocations :
        /\ inv[i].spotify # NoHandle
              => (inv[i].spotify.auth = inv[i].token /\ inv[i].spotify.id \in 1..handles)
        /\ inv[i].call # NoCall
              => (/\ inv[i].call.handle # NoHandle
                  /\ inv[i].call.handle = inv[i].spotify
                  /\ inv[i].call.handle.auth = inv[i].token)
        /\ \A j \in Invocations \ {i} :
              inv[i].spotify # NoHandle => inv[j].spotify.id # inv[i].spotify.id

\* two invocations carrying the same token, each with its call in flight
C13_Witness ==
    \E i, j \in Invocations :
        /\ i # j
        /\ inv[i].pc = "waiting" /\ inv[j].pc = "waiting"
        /\ inv[i].token = inv[j].token
        /\ inv[i].call.handle.id # inv[j].call.handle.id

\* a step changes the frame of one invocation at most
OneFrameChanges ==
    \A i, j \in Invocations : (i # j /\ inv'[j] # inv[j]) => inv'[i] = inv[i]

\* two returned invocations of one handler with the same arguments and the same
\* answer or failure have the same result, whatever else is being served
SameResultForSameInputs ==
    \A i, j \in Invocations :
        (/\ i # j /\ Returned(i) /\ Returned(j)
         /\ inv[i].op = inv[j].op /\ inv[i].args = inv[j].args /\ SameOutcome(i, j))
            => inv[i].result = inv[j].result

\* C14: concurrent invocations are independent: every step of one invocation,
\* a failure included, leaves every other invocation's frame and result as they
\* were, and an invocation's result is determined by its own handler, arguments
\* and the answer or failure of its own delegated call.
C14_Independent == []SameResultForSameInputs /\ [][OneFrameChanges]_vars

\* one invocation has returned the remote's answer while another, served
\* alongside it, has returned an error result
C14_Witness ==
    \E i, j \in Invocations :
        /\ i # j
        /\ Succeeded(i) /\ inv[i].result = PyDict(<<<<"id", PyStr("abc123")>>>>)
        /\ Returned(j) /\ IsFailure(inv[j].exc) /\ HasKey(inv[j].result, "error")
        /\ inv[j].spotify.id > inv[i].spotify.id

\* C15: no handler writes local state: the module's namespace is at every
\* moment what it was when the module was loaded, and a slot whose invocation
\* has returned and been taken by the host keeps no token, no client handle and
\* nothing else of that invocation.
C15_NoLocalState ==
    /\ globals = ModuleNames
    /\ \A i \in Invocations :
          inv[i].pc = "idle"
              => (inv[i].token = "" /\ inv[i].spotify = NoHandle /\ inv[i] = Idle)

\* two invocations have been served, each with a client of its own, and the
\* server is idle again
C15_Witness ==
    /\ AllIdle
    /\ handles >= 2
    /\ globals = ModuleNames

\* an invocation whose delegated call has been issued
Called(i) == inv[i].call # NoCall

\* parameter p of invocation i reaches the delegated call with the value the
\* caller gave, as the keyword argument of the same name or as the positional
\* argument at the parameter's own position
Forwarded(i, p) ==
    \E k \in 1..Len(inv[i].call.args) :
        /\ inv[i].call.args[k][2] = inv[i].args[p]
        /\ \/ inv[i].call.args[k][1] = p
           \/ /\ inv[i].call.args[k][1] = ""
              /\ k <= Len(Op(inv[i].op).params)
              /\ Op(inv[i].op).params[k][1] = p

\* parameter p reaches the delegated call with the value the caller gave, as
\* the keyword argument kw
ForwardedAs(i, p, kw) ==
    \E k \in 1..Len(inv[i].call.args) :
        /\ inv[i].call.args[k][1] = kw
        /\ inv[i].call.args[k][2] = inv[i].args[p]

\* the handlers that pass their query parameter as q
SearchOperations ==
    {"search_tracks", "search_artists", "search_albums", "search_playlists",
     "search_general", "search_markets"}

\* C16 as stated: every parameter of every handler reaches the delegated call
\* under its own name (or at its own position) with the value the caller gave.
C16_Original_AllForwardedUnchanged ==
    \A i \in Invocations :
        Called(i) => \A p \in ParamNames(Op(inv[i].op)) : Forwarded(i, p)

\* C16: every parameter of every handler reaches the delegated call, none is
\* dropped; it arrives under its own name (or at its own position) with the
\* value the caller gave, except that the six search handlers pass query, value
\* unchanged, as the keyword q, and get_playlist_items passes additional_types
\* under its own name as a tuple built from it.
C16_AllForwarded ==
    \A i \in Invocations :
        Called(i) =>
            \A p \in ParamNames(Op(inv[i].op)) :
                IF inv[i].op \in SearchOperations /\ p = "query"
                THEN ForwardedAs(i, "query", "q") /\ ~Forwarded(i, "query")
                ELSE IF inv[i].op = "get_playlist_items" /\ p = "additional_types"
                THEN /\ \E k \in 1..Len(inv[i].call.args) :
                          /\ inv[i].call.args[k][1] = "additional_types"
                          /\ inv[i].call.args[k][2].t = "tuple"
                     /\ ~Forwarded(i, "additional_types")
                ELSE Forwarded(i, p)

\* get_album_tracks called with a market of the caller's own: the call carries
\* the identifier first and limit, offset and market by name
C16_Witness ==
    \E i \in Invocations :
        /\ Called(i)
        /\ inv[i].op = "get_album_tracks"
        /\ inv[i].args["market"] = PyStr("market")
        /\ inv[i].call.args = <<<<"", PyStr("album_id")>>, <<"limit", PyInt(50)>>,
                                 <<"offset", PyInt(0)>>, <<"market", PyStr("market")>>>>

\* C17: when building the client handle raises a failure, no delegated call is
\* issued and no handle is held, and the handler returns a mapping whose one
\* field, "error", is its own failure prefix, then ": ", then the failure's
\* description, as for a failed delegated call.
C17_ClientFailure ==
    \A i \in Invocations :
        (inv[i].failedAt = "client" /\ IsFailure(inv[i].exc)) =>
            /\ inv[i].ncalls = 0 /\ inv[i].call = NoCall /\ inv[i].spotify = NoHandle
            /\ inv[i].pc \in {"raising", "done"}
            /\ Returned(i) =>
                  /\ IsMapping(inv[i].result)
                  /\ Keys(inv[i].result) = {"error"}
                  /\ Get(inv[i].result, "error")
                        = PyStr(FailurePrefix(Op(inv[i].op)) \o ": " \o Str(inv[i].exc))

\* get_album_info returned its error result after the client could not be built
C17_Witness ==
    \E i \in Invocations :
        /\ Returned(i)
        /\ inv[i].op = "get_album_info"
        /\ inv[i].failedAt = "client"
        /\ inv[i].exc = Raised("ConnectionError", "Connection refused")
        /\ inv[i].ncalls = 0
        /\ inv[i].result
             = PyDict(<<<<"error", PyStr("Failed to get album info: Connection refused")>>>>)

\* C18: a successful existence check returns a mapping with exactly one key,
\* "following" for playlist_is_following, check_current_user_following_artists
\* and check_current_user_following_users, "saved" for
\* check_current_user_saved_albums, _episodes, _shows and _tracks, holding the
\* delegated call's answer as received; an empty answer is wrapped like any
\* other and no placeholder takes its place.
C18_ExistenceCheckWrap ==
    \A i \in Invocations :
        (Succeeded(i) /\ inv[i].op \in ExistenceChecks) =>
            /\ IsMapping(inv[i].result)
            /\ Keys(inv[i].result)
                 = {IF inv[i].op \in {"playlist_is_following",
                                       "check_current_user_following_artists",
                                       "check_current_user_following_users"}
                    THEN "following" ELSE "saved"}
            /\ Len(inv[i].result.items) = 1
            /\ inv[i].result.items[1][2] = inv[i].response

\* a check of no identifiers at all: the empty answer under the key
C18_Witness ==
    \E i \in Invocations :
        /\ Succeeded(i)
        /\ inv[i].op = "check_current_user_following_artists"
        /\ inv[i].response = PyList(<<>>)
        /\ inv[i].result = PyDict(<<<<"following", PyList(<<>>)>>>>)

\* an empty list or an empty mapping
EmptyCollection(v) == v # PyNone /\ v # Unset /\ v.t \in {"dict", "list"} /\ Len(v.items) = 0

\* the handlers that substitute a placeholder, with the placeholder's key
PlaceholderKey(name) ==
    CASE name = "get_current_playback" -> "playback"
      [] name = "get_currently_playing" -> "currently_playing"
      [] name = "get_current_user_playing_track" -> "track"
      [] name = "get_audio_features" -> "audio_features"
      [] OTHER -> ""

\* the key of a wrapping handler
WrapKey(name) == IF name = "playlist_cover_image" THEN "images" ELSE CheckKey(name)

\* C19 as stated: outside the handlers that substitute a placeholder, an empty
\* collection answered by the delegated call is the handler's result, as
\* received and unwrapped.
C19_Original_EmptyCollectionAsIs ==
    \A i \in Invocations :
        (Succeeded(i) /\ EmptyCollection(inv[i].response) /\ PlaceholderKey(inv[i].op) = "")
            => inv[i].result = inv[i].response

\* C19: an empty collection answered by the delegated call is the handler's
\* result as received, except in the eight wrapping handlers, which return it
\* under their fixed key, and in the four placeholder handlers, which return
\* their key with a null value; get_audio_features, whose answer is a list, is
\* one of these four. No other handler substitutes a placeholder: a null
\* answer too is returned as received, or wrapped as received.
C19_EmptyCollection ==
    \A i \in Invocations :
        (Succeeded(i) /\ (EmptyCollection(inv[i].response) \/ inv[i].response = PyNone)) =>
            IF PlaceholderKey(inv[i].op) # ""
            THEN inv[i].result = PyDict(<<<<PlaceholderKey(inv[i].op), PyNone>>>>)
            ELSE IF inv[i].op \in WrappingOperations
            THEN inv[i].result = PyDict(<<<<WrapKey(inv[i].op), inv[i].response>>>>)
            ELSE inv[i].result = inv[i].response

\* get_artists answered by an empty list returns the empty list
C19_Witness ==
    \E i \in Invocations :
        /\ Succeeded(i)
        /\ inv[i].op = "get_artists"
        /\ inv[i].response = PyList(<<>>)
        /\ inv[i].result = PyList(<<>>)

\* a is a leading part of b
IsLeadingPart(a, b) == Len(a) <= Len(b) /\ SubSeq(b, 1, Len(a)) = a

\* the failure texts (prefix and ": ") of two different handlers are never
\* equal and never one a leading part of the other
PrefixFree ==
    \A a, b \in Operations :
        a.name # b.name => ~IsLeadingPart(a.failure, b.failure)

\* C20: the failure prefixes, ": " included, of any two different handlers
\* differ and none is a leading part of another, so the error message a handler
\* returns never begins with another handler's prefix.
C20_DistinctPrefixes ==
    /\ PrefixFree
    /\ \A i \in Invocations :
          (Returned(i) /\ IsFailure(inv[i].exc)) =>
              /\ IsLeadingPart(Op(inv[i].op).failure, Get(inv[i].result, "error").s)
              /\ \A o \in Operations :
                    o.name # inv[i].op
                        => ~IsLeadingPart(o.failure, Get(inv[i].result, "error").s)

\* get_currently_playing returned an error: its prefix without the ": " begins
\* get_current_user_playing_track's, with it it does not
C20_Witness ==
    \E i \in Invocations :
        /\ Returned(i) /\ IsFailure(inv[i].exc)
        /\ inv[i].op = "get_currently_playing"
        /\ inv[i].result
             = PyDict(<<<<"error", PyStr("Failed to get currently playing: Connection refused")>>>>)
        /\ IsLeadingPart(FailurePrefix(get_currently_playing),
                         get_current_user_playing_track.failure)
        /\ ~IsLeadingPart(get_currently_playing.failure,
                          get_current_user_playing_track.failure)

\* the delegated call of invocation i has returned or raised and the handler
\* has not ended yet
CallCompleted(i) ==
    \/ inv[i].pc = "responded"
    \/ inv[i].pc = "raising" /\ inv[i].failedAt = "call"

\* from the moment its delegated call has returned or raised an invocation
\* issues no call, and once it has ended its outcome stays as it is until the
\* host takes it
NoFurtherStep ==
    \A i \in Invocations :
        /\ (CallCompleted(i) \/ Ended(i))
              => (inv'[i].ncalls = inv[i].ncalls \/ inv'[i] = Idle)
        /\ Ended(i) => (inv'[i] = inv[i] \/ inv'[i] = Idle)

\* C21: every invocation whose delegated call has returned or raised ends,
\* whatever the other invocations do or fail to do; it issues no further call
\* on the way, and it ends with one outcome that does not change afterwards.
C21_Terminates ==
    /\ \A i \in Invocations : CallCompleted(i) ~> Ended(i)
    /\ [][NoFurtherStep]_vars
    /\ [](\A i \in Invocations : Ended(i) => inv[i].ncalls <= 1)

\* an invocation has returned its result while another, begun before it, is
\* still waiting for the remote side
C21_Witness ==
    \E i, j \in Invocations :
        /\ i # j
        /\ Returned(i) /\ inv[i].ncalls = 1 /\ inv[i].result # Unset
        /\ inv[j].pc = "waiting"
        /\ inv[j].spotify.id < inv[i].spotify.id

\* C22: whenever playlist_cover_image succeeds its result is a mapping with the
\* one key "images" holding the delegated call's answer as received, empty or
\* not; the result is never the answer itself, and a null stands under the key
\* only when the answer was null.
C22_CoverImageWrapped ==
    \A i \in Invocations :
        (Succeeded(i) /\ inv[i].op = "playlist_cover_image") =>
            /\ IsMapping(inv[i].result)
            /\ Keys(inv[i].result) = {"images"}
            /\ Len(inv[i].result.items) = 1
            /\ Get(inv[i].result, "images") = inv[i].response
            /\ inv[i].result # inv[i].response
            /\ inv[i].response # PyNone => Get(inv[i].result, "images") # PyNone

\* playlist_cover_image answered by an empty list of images
C22_Witness ==
    \E i \in Invocations :
        /\ Succeeded(i)
        /\ inv[i].op = "playlist_cover_image"
        /\ inv[i].response = PyList(<<>>)
        /\ inv[i].result = PyDict(<<<<"images", PyList(<<>>)>>>>)

\* the keywords of the delegated call of invocation i
CallKeywords(i) == {inv[i].call.args[k][1] : k \in 1..Len(inv[i].call.args)}

\* the value the delegated call of invocation i carries under keyword kw
CallArg(i, kw) ==
    inv[i].call.args[CHOOSE k \in 1..Len(inv[i].call.args) : inv[i].call.args[k][1] = kw][2]

\* the item type of a type-specific search handler
OwnType(name) ==
    CASE name = "search_tracks" -> "track"
      [] name = "search_artists" -> "artist"
      [] name = "search_albums" -> "album"
      [] name = "search_playlists" -> "playlist"

TypeSearches == {"search_tracks", "search_artists", "search_albums", "search_playlists"}

\* C23: the delegated search of search_tracks, search_artists, search_albums
\* and search_playlists carries exactly q, type, limit and offset: the caller's
\* query, limit and offset, the handler's own item type whatever the input, and
\* no market. search_general and search_markets pass the caller's type and
\* market(s), and no other handler issues a search.
C23_TypeSpecificSearch ==
    \A i \in Invocations :
        Called(i) =>
            /\ inv[i].op \in TypeSearches =>
                  /\ inv[i].call.method = "search"
                  /\ Len(inv[i].call.args) = 4
                  /\ CallKeywords(i) = {"q", "type", "limit", "offset"}
                  /\ CallArg(i, "type") = PyStr(OwnType(inv[i].op))
                  /\ CallArg(i, "q") = inv[i].args["query"]
                  /\ CallArg(i, "limit") = inv[i].args["limit"]
                  /\ CallArg(i, "offset") = inv[i].args["offset"]
            /\ inv[i].op = "search_general" =>
                  /\ inv[i].call.method = "search"
                  /\ CallArg(i, "type") = inv[i].args["type"]
                  /\ CallArg(i, "market") = inv[i].args["market"]
            /\ inv[i].op = "search_markets" =>
                  /\ inv[i].call.method = "search_markets"
                  /\ CallArg(i, "type") = inv[i].args["type"]
                  /\ CallArg(i, "markets") = inv[i].args["markets"]
            /\ inv[i].call.method \in {"search", "search_markets"} =>
                  inv[i].op \in TypeSearches \cup {"search_general", "search_markets"}

\* search_playlists called with a limit of the caller's own
C23_Witness ==
    \E i \in Invocations :
        /\ Called(i)
        /\ inv[i].op = "search_playlists"
        /\ inv[i].args["limit"] = PyInt(1)
        /\ inv[i].call.args = <<<<"q", PyStr("query")>>, <<"type", PyStr("playlist")>>,
                                 <<"limit", PyInt(1)>>, <<"offset", PyInt(0)>>>>

\* the strings of a tuple joined by commas
RECURSIVE Join(_)
Join(pieces) ==
    IF Len(pieces) = 0 THEN ""
    ELSE IF Len(pieces) = 1 THEN pieces[1].s
    ELSE pieces[1].s \o "," \o Join(Tail(pieces))

HasComma(s) == \E j \in 1..Len(s) : SubSeq(s, j, j) = ","

\* C24: the delegated call of get_playlist_items carries additional_types as a
\* tuple. For a non-empty string it holds the string's comma-separated pieces
\* in order: no piece has a comma and the pieces joined by commas give the
\* string back. For an empty string or None it is ("track", "episode"). When
\* the conversion raises, no call is issued and the handler returns
\* {"error": "Failed to get playlist items: " + description}.
C24_AdditionalTypesTuple ==
    \A i \in Invocations :
        inv[i].op = "get_playlist_items" =>
            /\ Called(i) =>
                  LET given == inv[i].args["additional_types"]
                      sent == CallArg(i, "additional_types")
                  IN /\ sent.t = "tuple"
                     /\ given \in {PyNone, PyStr("")}
                           => sent = PyTuple(<<PyStr("track"), PyStr("episode")>>)
                     /\ given \notin {PyNone, PyStr("")} =>
                           /\ given.t = "str"
                           /\ Len(sent.items) >= 1
                           /\ \A k \in 1..Len(sent.items) :
                                 sent.items[k].t = "str" /\ ~HasComma(sent.items[k].s)
                           /\ Join(sent.items) = given.s
            /\ (inv[i].pc \in {"waiting", "responded"} \/ Ended(i)) =>
                  (inv[i].failedAt = "local"
                     <=> (inv[i].spotify # NoHandle
                          /\ inv[i].args["additional_types"] = PyList(<<PyStr("track")>>)))
            /\ inv[i].failedAt = "local" =>
                  /\ ~Called(i)
                  /\ inv[i].pc \in {"raising", "done"}
                  /\ Returned(i) =>
                        inv[i].result
                          = PyDict(<<<<"error",
                                      PyStr("Failed to get playlist items: " \o Str(inv[i].exc))>>>>)

\* get_playlist_items called with "t,e": the call carries ("t", "e")
C24_Witness ==
    \E i \in Invocations :
        /\ Called(i)
        /\ inv[i].op = "get_playlist_items"
        /\ inv[i].args["additional_types"] = PyStr("t,e")
        /\ CallArg(i, "additional_types") = PyTuple(<<PyStr("t"), PyStr("e")>>)

====
